---------------------------- MODULE Spec2Model ----------------------------
(***************************************************************************)
(* Model of the two command-line programs of the repository:               *)
(*   download_gutenberg_books.py        (the harvester, GutenbergDownloader)*)
(*   upload_gutenberg_books_invenio.py  (the publisher, InvenioUploader)    *)
(* Every remote call and every file write is one step whose outcome the    *)
(* environment chooses.  History variables (pageLog, attempts, reqs, ...)  *)
(* record what was requested; they are written, never read, by the code.   *)
(***************************************************************************)
EXTENDS Integers, Sequences, FiniteSets, TLC

(***************************************************************************)
(* Bounds of the model.                                                    *)
(***************************************************************************)
MaxNum == 3
MaxPages == 3
MaxPageLen == 2
MaxId == 2
MaxSegs == 3
MaxLimit == 2
MaxRecords == 3
MaxTitleLen == 4
MaxLength == 3
MaxPeople == 2

(***************************************************************************)
(* Program constants.                                                      *)
(***************************************************************************)
\* data.get('next') is None: the response names no further page.
NoUrl == 0
\* A metadata entry that has no 'id' field (book_meta['id'] raises KeyError).
NoId == 0
\* The first listing URL, f"{GUTENDEX_API}?languages={language}".
FirstUrl == 1

(***************************************************************************)
(* Generic helpers.                                                        *)
(***************************************************************************)
Min2(a, b) == IF a <= b THEN a ELSE b
Max2(a, b) == IF a >= b THEN a ELSE b
SetMin(S) == CHOOSE x \in S : \A y \in S : x <= y
SetMax(S) == CHOOSE x \in S : \A y \in S : x >= y

SeqsUpTo(S, n) == UNION { [1..k -> S] : k \in 0..n }

\* Python's s[:n].
PySliceTo(s, n) ==
    IF n >= 0 THEN SubSeq(s, 1, Min2(n, Len(s)))
    ELSE SubSeq(s, 1, Max2(Len(s) + n, 0))

\* Python's s[a:b] for 0 <= a, 0 <= b <= len(s): empty when a >= b.
PySlice(s, a, b) == SubSeq(s, a + 1, b)

RECURSIVE Flatten(_)
Flatten(ss) == IF ss = <<>> THEN <<>> ELSE Head(ss) \o Flatten(Tail(ss))

VARIABLES
    \* ---- harvester: fetch_metadata ----
    hPc,            \* "off" | "fetch" | "fetched" | "loop" | "done" | "aborted"
    num_books,      \* the requested count
    books,          \* fetch_metadata's accumulator, then its return value
    url,            \* the next listing URL, NoUrl when the API names none
    pageLog,        \* history: one record per page request of the call in
                    \* progress, dropped when download_all takes its result
    \* ---- harvester: download_all ----
    books_metadata, \* the list fetch_metadata returned
    idx,            \* 1-based position of the for loop
    successful,
    failed,         \* <<book_id, reason>> pairs
    attempts,       \* history: ids handed to download_book_text, in order
    book_text,      \* what download_book_text returned last
    textFiles,      \* stems of the files under books/
    metaFiles,      \* stems of the files under metadata/
    master,         \* all_books_metadata.json
    summary,        \* the end-of-run summary was printed
    \* ---- harvester: strip_gutenberg_headers ----
    sPc,            \* "off" | "ready" | "done"
    text,           \* the raw text, a sequence of tokens
    start_pos,
    end_pos,
    content,        \* the returned text
    \* ---- publisher: upload_all, update_all ----
    upPc,           \* "off" | "start" | "loop" | "create" | "init" | "content"
                    \* | "commit" | "publish" | "gen" | "newversion" | "import"
                    \* | "metadata" | "republish" | "done" | "nodir" | "aborted"
                    \* | "blocked"
    dirExists,      \* the metadata directory exists
    metaDir,        \* stem -> what json.load finds in metadata/<stem>.json
    bookDir,        \* stems of the files under books/
    limit,          \* the --limit option, 0 when not given
    metadata_files, \* upload_all's sorted, limited list of stems
    upIdx,          \* 1-based position of upload_all's for loop
    upSuccessful,
    upFailed,
    upSummary,      \* the end-of-run summary was printed
    reqs,           \* history: the remote requests made for the current unit
    outs,           \* history: how each of them came back
    ret,            \* what upload_book / update_record did for the current
                    \* unit: "none" | "True" | "False" | "raise"
    page,           \* get_existing_records: the page to request next
    hits,           \* get_existing_records: how many hits of the page in
                    \* hand the loop has not reached yet
    listed,         \* history: how many hits the listing has returned
    count,          \* update_all: records taken from the generator
    cur,            \* update_all: the record in hand
    \* ---- harvester: sanitize_filename ----
    fPc,            \* "off" | "ready" | "done"
    title,          \* the text argument, a sequence of characters
    max_length,
    safe_title,     \* the returned file name
    \* ---- publisher: create_metadata, extract_gutenberg_id ----
    mPc,            \* "off" | "ready" | "built" | "done"
    gutenberg_meta, \* the Gutendex entry handed to create_metadata
    metadata,       \* the InvenioRDM metadata it returns
    gutenberg_id    \* what extract_gutenberg_id finds in a record carrying it

hVars == <<hPc, num_books, books, url, pageLog, books_metadata, idx,
           successful, failed, attempts, book_text, textFiles, metaFiles, master, summary>>

sVars == <<sPc, text, start_pos, end_pos, content>>

pVars == <<upPc, dirExists, metaDir, bookDir, limit, metadata_files, upIdx,
           upSuccessful, upFailed, upSummary, reqs, outs, ret, page, hits,
           listed, count, cur>>

fVars == <<fPc, title, max_length, safe_title>>

mVars == <<mPc, gutenberg_meta, metadata, gutenberg_id>>

vars == <<hVars, sVars, pVars, fVars, mVars>>

(***************************************************************************)
(* Harvester: fetch_metadata.                                              *)
(***************************************************************************)
Entries == {NoId} \cup (1..MaxId)
Urls == FirstUrl..MaxPages

\* What one page request can come back with.  "error": transport error,
\* non-2xx status or an unparsable body; "noresults": a JSON body without a
\* 'results' array; "ok": results and a next link (a later page, or none).
PageResponses(u) ==
    { [kind |-> "error", results |-> <<>>, next |-> NoUrl],
      [kind |-> "noresults", results |-> <<>>, next |-> NoUrl] }
    \cup
    { [kind |-> "ok", results |-> r, next |-> n] :
        r \in SeqsUpTo(Entries, MaxPageLen),
        n \in {NoUrl} \cup { v \in Urls : v > u } }

\* Variant: the count is not consulted, only the next link.
LoopCond_IgnoreCount(b, n, u) == u # NoUrl

\* while len(books) < num_books and url:
LoopCond(b, n, u) == Len(b) < n /\ u # NoUrl

\* Variant: the accumulated list is returned untrimmed.
TrimBooks_NoTrim(b, n) == b

\* books = books[:num_books]
TrimBooks(b, n) == PySliceTo(b, n)

\* url = data.get('next')
FollowNext(resp) == resp.next

\* books.extend(data['results'])
Extend(b, resp) == b \o resp.results

\* Variant: the except branch does not break, the loop goes on.
AfterResponse_NoBreak(b, u, n, resp) ==
    IF resp.kind = "ok"
    THEN [books |-> b \o resp.results, url |-> resp.next, pc |-> "fetch"]
    ELSE [books |-> b, url |-> u, pc |-> "fetch"]

\* Lines 52-61, after the request: the accumulation when the body parsed
\* and had a 'results' array, else the except branch, which breaks out of
\* the loop with nothing added (and the function goes on to trim and return).
AfterResponse(b, u, n, resp) ==
    IF resp.kind = "ok"
    THEN [books |-> Extend(b, resp), url |-> FollowNext(resp), pc |-> "fetch"]
    ELSE [books |-> TrimBooks(b, n), url |-> u, pc |-> "fetched"]

\* One pass through the loop body.
FetchPage ==
    /\ hPc = "fetch"
    /\ LoopCond(books, num_books, url)
    /\ \E resp \in PageResponses(url) :
         LET a == AfterResponse(books, url, num_books, resp) IN
         /\ pageLog' = Append(pageLog,
                [url |-> url, before |-> Len(books), kind |-> resp.kind,
                 results |-> resp.results, next |-> resp.next])
         /\ books' = a.books
         /\ url' = a.url
         /\ hPc' = a.pc
    /\ UNCHANGED <<num_books, books_metadata, idx, successful, failed,
                   attempts, book_text,
                   textFiles, metaFiles, master, summary>>

\* The loop condition is false: trim and return.
FetchReturn ==
    /\ hPc = "fetch"
    /\ ~LoopCond(books, num_books, url)
    /\ books' = TrimBooks(books, num_books)
    /\ hPc' = "fetched"
    /\ UNCHANGED <<num_books, url, pageLog, books_metadata, idx, successful,
                   failed, attempts, book_text,
                   textFiles, metaFiles, master, summary>>

(***************************************************************************)
(* Harvester: download_book_text, save_book, download_all.                 *)
(***************************************************************************)
\* download_book_text: None on any exception, else the cleaned text, which
\* may be the empty string.
TextOutcomes == {"none", "empty", "text"}

\* One file write: done, refused at open(), or failed after open() created
\* the file.
WriteOutcomes == {"ok", "fail_nofile", "fail_partial"}

FileAfter(files, stem, w) == IF w = "fail_nofile" THEN files ELSE files \cup {stem}

\* Variant: the metadata file is written whatever became of the text file.
save_book_BothWrites(stem, tw, mw, tf, mf) ==
    [ret |-> tw = "ok" /\ mw = "ok", text |-> FileAfter(tf, stem, tw),
     meta |-> FileAfter(mf, stem, mw)]

\* save_book: the text file first; the metadata file only when the text was
\* written.
save_book(stem, tw, mw, tf, mf) ==
    IF tw # "ok"
    THEN [ret |-> FALSE, text |-> FileAfter(tf, stem, tw), meta |-> mf]
    ELSE [ret |-> mw = "ok", text |-> FileAfter(tf, stem, tw),
          meta |-> FileAfter(mf, stem, mw)]

\* Variant: only None counts as no text.
HasText_NotNone(t) == t # "none"

\* if book_text: (None and "" are both falsy)
HasText(t) == t = "text"

\* books_metadata = self.fetch_metadata(...); if not books_metadata: return
DownloadStart ==
    /\ hPc = "fetched"
    /\ books_metadata' = books
    /\ pageLog' = <<>>
    /\ IF books = <<>>
       THEN hPc' = "done" /\ idx' = idx
       ELSE hPc' = "loop" /\ idx' = 1
    /\ successful' = 0
    /\ failed' = <<>>
    /\ UNCHANGED <<num_books, books, url, attempts, book_text, textFiles, metaFiles,
                   master, summary>>

\* Variant: a failed save is not recorded.
Tally_DropSaveFailure(succ, fl, book_id, t, saved) ==
    IF t = "text"
    THEN IF saved
         THEN [successful |-> succ + 1, failed |-> fl]
         ELSE [successful |-> succ, failed |-> fl]
    ELSE [successful |-> succ, failed |-> Append(fl, <<book_id, "Download failed">>)]

\* Lines 222-230: what one book adds to the counters.  saved is save_book's
\* return value (read only when there was text).
Tally(succ, fl, book_id, t, saved) ==
    IF HasText(t)
    THEN IF saved
         THEN [successful |-> succ + 1, failed |-> fl]
         ELSE [successful |-> succ, failed |-> Append(fl, <<book_id, "Save failed">>)]
    ELSE [successful |-> succ, failed |-> Append(fl, <<book_id, "Download failed">>)]

\* One pass through the for loop.
DownloadBook ==
    /\ hPc = "loop"
    /\ idx <= Len(books_metadata)
    /\ LET book_meta == books_metadata[idx] IN
       IF book_meta = NoId
       THEN \* book_id = book_meta['id'] raises KeyError, caught nowhere
            /\ hPc' = "aborted"
            /\ UNCHANGED <<idx, successful, failed, attempts, book_text,
                           textFiles, metaFiles>>
       ELSE \E t \in TextOutcomes, tw \in WriteOutcomes, mw \in WriteOutcomes :
            LET s == IF HasText(t)
                     THEN save_book(book_meta, tw, mw, textFiles, metaFiles)
                     ELSE [ret |-> FALSE, text |-> textFiles, meta |-> metaFiles]
                c == Tally(successful, failed, book_meta, t, s.ret)
            IN
            /\ attempts' = Append(attempts, book_meta)
            /\ book_text' = t
            /\ textFiles' = s.text
            /\ metaFiles' = s.meta
            /\ successful' = c.successful
            /\ failed' = c.failed
            /\ idx' = idx + 1
            /\ hPc' = "loop"
    /\ UNCHANGED <<num_books, books, url, pageLog, books_metadata, master, summary>>

NoMaster == [st |-> "absent", content |-> <<>>]

\* Variant: only the entries of the books that did not fail are written.
MasterContent_OnlySaved(bm) ==
    SelectSeq(bm, LAMBDA e : ~(\E k \in 1..Len(failed) : failed[k][1] = e))

\* json.dump(books_metadata, f, ...): the list as fetched.
MasterContent(bm) == bm

\* After the loop: the summary, then the aggregate file (its write is not
\* inside a try).
WriteMaster ==
    /\ hPc = "loop"
    /\ idx > Len(books_metadata)
    /\ summary' = TRUE
    /\ \E w \in WriteOutcomes :
         /\ master' = IF w = "ok"
                      THEN [st |-> "full", content |-> MasterContent(books_metadata)]
                      ELSE IF w = "fail_partial"
                      THEN [st |-> "partial", content |-> <<>>]
                      ELSE master
         /\ hPc' = IF w = "ok" THEN "done" ELSE "aborted"
    /\ UNCHANGED <<num_books, books, url, pageLog, books_metadata, idx,
                   successful, failed, attempts, book_text,
                   textFiles, metaFiles>>

HarvestOff ==
    /\ hPc = "off"
    /\ num_books = 0
    /\ books = <<>>
    /\ url = NoUrl
    /\ pageLog = <<>>
    /\ books_metadata = <<>>
    /\ idx = 0
    /\ successful = 0
    /\ failed = <<>>
    /\ attempts = <<>>
    /\ book_text = "none"
    /\ textFiles = {}
    /\ metaFiles = {}
    /\ master = NoMaster
    /\ summary = FALSE

StripOff ==
    /\ sPc = "off"
    /\ text = <<>>
    /\ start_pos = 0
    /\ end_pos = 0
    /\ content = <<>>

NoRecord == [pub |-> "", desc |-> <<>>]

PublisherOff ==
    /\ upPc = "off"
    /\ dirExists = FALSE
    /\ metaDir = <<>>
    /\ bookDir = {}
    /\ limit = 0
    /\ metadata_files = <<>>
    /\ upIdx = 0
    /\ upSuccessful = 0
    /\ upFailed = <<>>
    /\ upSummary = FALSE
    /\ reqs = <<>>
    /\ outs = <<>>
    /\ ret = "none"
    /\ page = 0
    /\ hits = 0
    /\ listed = 0
    /\ count = 0
    /\ cur = NoRecord

SanitizeOff ==
    /\ fPc = "off"
    /\ title = <<>>
    /\ max_length = 0
    /\ safe_title = <<>>

\* book_meta.get('id') is None: the entry has no 'id'.
None == -1

\* A key the entry does not have, e.g. book_meta.get('authors', []) takes
\* the default.
Missing == [has |-> FALSE, list |-> <<>>]

NoBookMeta ==
    [id |-> None, authors |-> Missing, editors |-> Missing, translators |-> Missing]

NoMetadata ==
    [creators |-> <<>>, has_contributors |-> FALSE, contributors |-> <<>>,
     publisher |-> "", additional_descriptions |-> <<>>]

MetadataOff ==
    /\ mPc = "off"
    /\ gutenberg_meta = NoBookMeta
    /\ metadata = NoMetadata
    /\ gutenberg_id = None

InitHarvest ==
    /\ StripOff
    /\ PublisherOff
    /\ SanitizeOff
    /\ MetadataOff
    /\ hPc = "fetch"
    /\ num_books \in 0..MaxNum
    /\ books = <<>>
    /\ url = FirstUrl
    /\ pageLog = <<>>
    /\ books_metadata = <<>>
    /\ idx = 0
    /\ successful = 0
    /\ failed = <<>>
    /\ attempts = <<>>
    /\ book_text = "none"
    /\ textFiles = {}
    /\ metaFiles = {}
    /\ master = NoMaster
    /\ summary = FALSE

NextHarvest ==
    \/ FetchPage /\ UNCHANGED <<sVars, pVars, fVars, mVars>>
    \/ FetchReturn /\ UNCHANGED <<sVars, pVars, fVars, mVars>>
    \/ DownloadStart /\ UNCHANGED <<sVars, pVars, fVars, mVars>>
    \/ DownloadBook /\ UNCHANGED <<sVars, pVars, fVars, mVars>>
    \/ WriteMaster /\ UNCHANGED <<sVars, pVars, fVars, mVars>>

SpecHarvest == InitHarvest /\ [][NextHarvest]_vars

(***************************************************************************)
(* Harvester: strip_gutenberg_headers.                                     *)
(* A text is a sequence of tokens.  "***", " " and the newline "NL" stand  *)
(* for themselves, "x" for a character of a title or of the body, and each *)
(* marker phrase is one token, in capitals or in lower case.  No token     *)
(* contains a star, starts or ends with a blank, or overlaps a marker      *)
(* phrase, so a match of a pattern always lies on token boundaries.        *)
(***************************************************************************)
Lower == [t \in {"start_this", "end_this"} |->
            IF t = "start_this" THEN "START_THIS" ELSE "END_THIS"]

\* re.IGNORECASE: both sides are compared case-folded.
Fold(t) == IF t \in DOMAIN Lower THEN Lower[t] ELSE t

\* The patterns, in the order of the lists; "ANY+" is the regex .+ (one or
\* more characters, none a newline).
start_markers ==
    << <<"***", " ", "START_THIS", " ", "ANY+", " ", "***">>,
       <<"***", "START_THE", " ", "ANY+", " ", "***">>,
       <<"START_THIS">> >>

end_markers ==
    << <<"***", " ", "END_THIS", " ", "ANY+", " ", "***">>,
       <<"***", "END_THE", " ", "ANY+", " ", "***">>,
       <<"END_THIS">> >>

\* The offsets at which a match of pat[k..] that starts at offset pos can end.
RECURSIVE MatchEnds(_, _, _, _)
MatchEnds(pat, k, t, pos) ==
    IF k > Len(pat) THEN {pos}
    ELSE IF pat[k] = "ANY+"
    THEN UNION { MatchEnds(pat, k + 1, t, q) :
                   q \in { r \in (pos + 1)..Len(t) :
                             \A j \in (pos + 1)..r : t[j] # "NL" } }
    ELSE IF pos < Len(t) /\ Fold(t[pos + 1]) = pat[k]
    THEN MatchEnds(pat, k + 1, t, pos + 1)
    ELSE {}

NoMatch == [found |-> FALSE, start |-> 0, end |-> 0]

\* re.search(marker, text, re.IGNORECASE): the leftmost start at which the
\* pattern matches, and there the match the greedy .+ finds first, the
\* longest.
re_search(pat, t) ==
    LET starts == { p \in 0..Len(t) : MatchEnds(pat, 1, t, p) # {} } IN
    IF starts = {} THEN NoMatch
    ELSE LET st == SetMin(starts) IN
         [found |-> TRUE, start |-> st, end |-> SetMax(MatchEnds(pat, 1, t, st))]

\* Variant: the match that starts leftmost in the text wins, whichever
\* pattern of the list it belongs to.
FirstMatch_ByTextPosition(markers, k, t) ==
    LET ms == { re_search(markers[j], t) : j \in k..Len(markers) }
        found == { m \in ms : m.found }
    IN IF found = {} THEN NoMatch
       ELSE CHOOSE m \in found : \A o \in found : m.start <= o.start

\* for marker in markers: match = re.search(...); if match: ...; break
RECURSIVE FirstMatch(_, _, _)
FirstMatch(markers, k, t) ==
    IF k > Len(markers) THEN NoMatch
    ELSE LET m == re_search(markers[k], t) IN
         IF m.found THEN m ELSE FirstMatch(markers, k + 1, t)

IsSpace(tok) == tok \in {" ", "NL"}

\* str.strip()
RECURSIVE LStrip(_)
LStrip(t) == IF t # <<>> /\ IsSpace(Head(t)) THEN LStrip(Tail(t)) ELSE t
RECURSIVE RStrip(_)
RStrip(t) ==
    IF t # <<>> /\ IsSpace(t[Len(t)]) THEN RStrip(SubSeq(t, 1, Len(t) - 1)) ELSE t
PyStrip(t) == RStrip(LStrip(t))

\* Lines 86-91.
StartPos(t) ==
    LET m == FirstMatch(start_markers, 1, t) IN IF m.found THEN m.end ELSE 0

\* Lines 100-105.
EndPos(t) ==
    LET m == FirstMatch(end_markers, 1, t) IN IF m.found THEN m.start ELSE Len(t)

strip_gutenberg_headers ==
    /\ sPc = "ready"
    /\ start_pos' = StartPos(text)
    /\ end_pos' = EndPos(text)
    /\ content' = PyStrip(PySlice(text, start_pos', end_pos'))
    /\ sPc' = "done"
    /\ UNCHANGED text

\* The pieces the texts of the model are put together from.
Segments ==
    { <<"***", " ", "START_THIS", " ", "x", " ", "***">>,
      <<"***", "START_THE", " ", "x", " ", "***">>,
      <<"start_this">>,
      <<"***", " ", "END_THIS", " ", "x", " ", "***">>,
      <<"***", "END_THE", " ", "x", " ", "***">>,
      <<"end_this">>,
      <<"x">>, <<" ">>, <<"NL">>, <<" ", "***">>, <<"NL", "x", "NL">> }

Texts == { Flatten(ss) : ss \in SeqsUpTo(Segments, MaxSegs) }

InitStrip ==
    /\ HarvestOff
    /\ PublisherOff
    /\ SanitizeOff
    /\ MetadataOff
    /\ sPc = "ready"
    /\ text \in Texts
    /\ start_pos = 0
    /\ end_pos = 0
    /\ content = <<>>

NextStrip == strip_gutenberg_headers /\ UNCHANGED <<hVars, pVars, fVars, mVars>>

SpecStrip == InitStrip /\ [][NextStrip]_vars

(***************************************************************************)
(* Harvester: sanitize_filename.  A text is a sequence of characters; "a"  *)
(* stands for any character that is neither whitespace nor named in one of *)
(* the patterns, ":" for any of the characters of the first pattern.       *)
(***************************************************************************)
Chars == {"a", " ", "_", ".", ":"}

\* The class [<>:"/\\|?*] of the first re.sub.
IllegalChars == {":"}

\* The class \s of the second re.sub.
Whitespace == {" "}

\* The characters text.strip('._') removes.
Separators == {".", "_"}

\* re.sub(r'[<>:"/\\|?*]', '', text)
RemoveIllegal(t) == SelectSeq(t, LAMBDA c : c \notin IllegalChars)

\* re.sub(r'\s+', '_', text): every maximal run of whitespace becomes one '_'.
RECURSIVE CollapseWhitespace(_)
CollapseWhitespace(t) ==
    IF t = <<>> THEN <<>>
    ELSE IF Head(t) \in Whitespace
    THEN LET rest == CollapseWhitespace(Tail(t)) IN
         IF Len(t) > 1 /\ t[2] \in Whitespace THEN rest ELSE <<"_">> \o rest
    ELSE <<Head(t)>> \o CollapseWhitespace(Tail(t))

\* text.strip('._')
RECURSIVE StripSeparators(_)
StripSeparators(t) ==
    IF t # <<>> /\ Head(t) \in Separators THEN StripSeparators(Tail(t))
    ELSE IF t # <<>> /\ t[Len(t)] \in Separators
    THEN StripSeparators(SubSeq(t, 1, Len(t) - 1))
    ELSE t

\* t.rsplit('_', 1)[0]: what precedes the last '_', all of t when it has none.
RSplitFirst(t) ==
    LET us == { k \in 1..Len(t) : t[k] = "_" } IN
    IF us = {} THEN t ELSE SubSeq(t, 1, SetMax(us) - 1)

\* Lines 145-147.
Cleaned(t) == StripSeparators(CollapseWhitespace(RemoveIllegal(t)))

\* Lines 150-151.
Truncate(t, n) == IF Len(t) > n THEN RSplitFirst(PySliceTo(t, n)) ELSE t

sanitize_filename ==
    /\ fPc = "ready"
    /\ safe_title' = Truncate(Cleaned(title), max_length)
    /\ fPc' = "done"
    /\ UNCHANGED <<title, max_length>>

InitSanitize ==
    /\ HarvestOff
    /\ StripOff
    /\ PublisherOff
    /\ MetadataOff
    /\ fPc = "ready"
    /\ title \in SeqsUpTo(Chars, MaxTitleLen)
    /\ max_length \in 0..MaxLength
    /\ safe_title = <<>>

NextSanitize == sanitize_filename /\ UNCHANGED <<hVars, sVars, pVars, mVars>>

SpecSanitize == InitSanitize /\ [][NextSanitize]_vars

(***************************************************************************)
(* Publisher: the remote calls.  Every helper wraps its request in         *)
(* try/except Exception, so a call comes back as one of                    *)
(*   "error"  transport error, non-2xx status or unparsable body;          *)
(*   "empty"  a 2xx response whose JSON body is falsy ({}, null);          *)
(*   "noid"   a 2xx response whose JSON body has no 'id';                  *)
(*   "ok"     a 2xx response whose JSON body has an 'id'.                  *)
(***************************************************************************)
JsonOutcomes == {"error", "empty", "noid", "ok"}
PlainOutcomes == {"error", "ok"}
\* The PUT of the content, or open(file_path, 'rb') failing before it.
ContentOutcomes == {"openfail", "error", "ok"}

\* if not draft / if not new_draft / if not published: None and a falsy body
\* both count as failure.
Truthy(o) == o \in {"noid", "ok"}

\* Variant: the step's result is not looked at.
StepOk_Always(o) == TRUE

\* raise_for_status() passed: upload_file's steps and the bool helpers.
StepOk(o) == o = "ok"

\* draft['id'], published['id']: KeyError without the field.
HasId(o) == o = "ok"

(***************************************************************************)
(* Publisher: upload_all, upload_book, upload_file.                        *)
(***************************************************************************)
Stems == 1..MaxId
\* json.load of a metadata file: a parse error, an object without 'id', or
\* an object with 'id'.
FileKinds == {"malformed", "noid", "ok"}

RECURSIVE Sorted(_)
Sorted(S) ==
    IF S = {} THEN <<>>
    ELSE LET m == SetMin(S) IN <<m>> \o Sorted(S \ {m})

\* metadata_files = sorted(glob("*.json")); if limit: metadata_files[:limit]
Select(files, lim) ==
    IF lim # 0 THEN PySliceTo(Sorted(files), lim) ELSE Sorted(files)

UploadStart ==
    /\ upPc = "start"
    /\ IF ~dirExists
       THEN upPc' = "nodir" /\ UNCHANGED <<metadata_files, upIdx>>
       ELSE /\ metadata_files' = Select(DOMAIN metaDir, limit)
            /\ upIdx' = 1
            /\ upPc' = "loop"
    /\ upSuccessful' = 0
    /\ upFailed' = <<>>
    /\ UNCHANGED <<dirExists, metaDir, bookDir, limit, upSummary, reqs, outs,
                   ret, page, listed, hits, count, cur>>

\* Variant: a failed book is not put on the failed list.
Counted_DropFailure(succ, fl, unit, ok) ==
    IF ok THEN [successful |-> succ + 1, failed |-> fl]
    ELSE [successful |-> succ, failed |-> fl]

\* if self.upload_book(f): successful += 1 else: failed.append(...)
\* (and the same lines of update_all).
Counted(succ, fl, unit, ok) ==
    IF ok THEN [successful |-> succ + 1, failed |-> fl]
    ELSE [successful |-> succ, failed |-> Append(fl, unit)]

\* upload_book returned r for metadata_files[upIdx]: upload_all counts it and
\* moves on.
BookReturns(r) ==
    LET c == Counted(upSuccessful, upFailed, metadata_files[upIdx], r) IN
    /\ ret' = (IF r THEN "True" ELSE "False")
    /\ upSuccessful' = c.successful
    /\ upFailed' = c.failed
    /\ upIdx' = upIdx + 1
    /\ upPc' = "loop"

\* An exception leaves upload_book; upload_all does not catch it.
BookRaises ==
    /\ ret' = "raise"
    /\ upPc' = "aborted"
    /\ UNCHANGED <<upSuccessful, upFailed, upIdx>>

BookGoesOn(pc) ==
    /\ upPc' = pc
    /\ UNCHANGED <<ret, upSuccessful, upFailed, upIdx>>

\* Something was sent and came back as o.
Sent(name, o) ==
    /\ reqs' = Append(reqs, name)
    /\ outs' = Append(outs, o)

\* upload_book, lines 431-446: load the metadata, find the text file.
BeginBook ==
    /\ upPc = "loop"
    /\ upIdx <= Len(metadata_files)
    /\ reqs' = <<>>
    /\ outs' = <<>>
    /\ LET f == metadata_files[upIdx] IN
       IF metaDir[f] # "ok" THEN BookRaises
       ELSE IF f \notin bookDir THEN BookReturns(FALSE)
       ELSE /\ upPc' = "create"
            /\ ret' = "none"
            /\ UNCHANGED <<upSuccessful, upFailed, upIdx>>
    /\ UNCHANGED <<dirExists, metaDir, bookDir, limit, metadata_files,
                   upSummary, page, listed, hits, count, cur>>

\* Lines 448-458.
CreateDraft ==
    /\ upPc = "create"
    /\ \E o \in JsonOutcomes :
         /\ Sent("create-draft", o)
         /\ IF ~Truthy(o) THEN BookReturns(FALSE)
            ELSE IF ~HasId(o) THEN BookRaises
            ELSE BookGoesOn("init")
    /\ UNCHANGED <<dirExists, metaDir, bookDir, limit, metadata_files,
                   upSummary, page, listed, hits, count, cur>>

\* upload_file, step 1.
InitiateFile ==
    /\ upPc = "init"
    /\ \E o \in PlainOutcomes :
         /\ Sent("initiate-file", o)
         /\ IF StepOk(o) THEN BookGoesOn("content") ELSE BookReturns(FALSE)
    /\ UNCHANGED <<dirExists, metaDir, bookDir, limit, metadata_files,
                   upSummary, page, listed, hits, count, cur>>

\* upload_file, step 2.
UploadContent ==
    /\ upPc = "content"
    /\ \E o \in ContentOutcomes :
         IF o = "openfail"
         THEN BookReturns(FALSE) /\ UNCHANGED <<reqs, outs>>
         ELSE /\ Sent("upload-content", o)
              /\ IF StepOk(o) THEN BookGoesOn("commit") ELSE BookReturns(FALSE)
    /\ UNCHANGED <<dirExists, metaDir, bookDir, limit, metadata_files,
                   upSummary, page, listed, hits, count, cur>>

\* upload_file, step 3.
CommitFile ==
    /\ upPc = "commit"
    /\ \E o \in PlainOutcomes :
         /\ Sent("commit-file", o)
         /\ IF StepOk(o) THEN BookGoesOn("publish") ELSE BookReturns(FALSE)
    /\ UNCHANGED <<dirExists, metaDir, bookDir, limit, metadata_files,
                   upSummary, page, listed, hits, count, cur>>

\* Lines 468-479.
PublishBook ==
    /\ upPc = "publish"
    /\ \E o \in JsonOutcomes :
         /\ Sent("publish", o)
         /\ IF ~Truthy(o) THEN BookReturns(FALSE)
            ELSE IF ~HasId(o) THEN BookRaises
            ELSE BookReturns(TRUE)
    /\ UNCHANGED <<dirExists, metaDir, bookDir, limit, metadata_files,
                   upSummary, page, listed, hits, count, cur>>

\* requests.get(url, timeout=30) in fetch_metadata and download_book_text.
PageTimeout == 30
TextTimeout == 30
\* The publisher's calls pass no timeout: requests then waits without limit.
NoTimeout == 0

\* The timeout argument of every remote call of the two programs.
Timeout ==
    [name \in {"page", "text", "create-draft", "initiate-file", "upload-content",
               "commit-file", "publish", "list-records", "create-new-version",
               "import-files", "update-metadata"} |->
        CASE name = "page" -> PageTimeout
          [] name = "text" -> TextTimeout
          [] OTHER -> NoTimeout]

\* What a call makes of a server that never answers: with a timeout requests
\* raises, which the caller's except clause takes as any other error; without
\* one the call never returns.
Unanswered(name) == IF Timeout[name] # NoTimeout THEN "error" ELSE "blocked"

\* The request the publisher makes at each of its positions.
RequestAt ==
    [pc \in {"create", "init", "content", "commit", "publish", "gen",
             "newversion", "import", "metadata", "republish"} |->
        CASE pc = "create" -> "create-draft"
          [] pc = "init" -> "initiate-file"
          [] pc = "content" -> "upload-content"
          [] pc = "commit" -> "commit-file"
          [] pc = "publish" -> "publish"
          [] pc = "gen" -> "list-records"
          [] pc = "newversion" -> "create-new-version"
          [] pc = "import" -> "import-files"
          [] pc = "metadata" -> "update-metadata"
          [] pc = "republish" -> "publish"]

\* The publisher sends the request of its position to a server that never
\* answers.  (For the harvester's two calls the same server is the "error"
\* response of FetchPage and the "none" text of DownloadBook.)
RequestHangs ==
    /\ upPc \in DOMAIN RequestAt
    /\ upPc = "gen" => hits = 0
    /\ Unanswered(RequestAt[upPc]) = "blocked"
    /\ IF upPc = "gen" THEN UNCHANGED <<reqs, outs>>
       ELSE Sent(RequestAt[upPc], "silent")
    /\ upPc' = "blocked"
    /\ UNCHANGED <<dirExists, metaDir, bookDir, limit, metadata_files, upIdx,
                   upSuccessful, upFailed, upSummary, ret, page, listed, hits,
                   count, cur>>

\* Lines 519-530.
UploadSummary ==
    /\ upPc = "loop"
    /\ upIdx > Len(metadata_files)
    /\ upSummary' = TRUE
    /\ upPc' = "done"
    /\ UNCHANGED <<dirExists, metaDir, bookDir, limit, metadata_files, upIdx,
                   upSuccessful, upFailed, reqs, outs, ret, page, listed, hits,
                   count, cur>>

MetaDirs == UNION { [S -> FileKinds] : S \in SUBSET Stems }

InitUpload ==
    /\ HarvestOff
    /\ StripOff
    /\ SanitizeOff
    /\ MetadataOff
    /\ upPc = "start"
    /\ dirExists \in BOOLEAN
    /\ metaDir \in (IF dirExists THEN MetaDirs ELSE {<<>>})
    /\ bookDir \in SUBSET Stems
    /\ limit \in 0..MaxLimit
    /\ metadata_files = <<>>
    /\ upIdx = 0
    /\ upSuccessful = 0
    /\ upFailed = <<>>
    /\ upSummary = FALSE
    /\ reqs = <<>>
    /\ outs = <<>>
    /\ ret = "none"
    /\ page = 0
    /\ hits = 0
    /\ listed = 0
    /\ count = 0
    /\ cur = NoRecord

NextUpload ==
    \/ UploadStart /\ UNCHANGED <<hVars, sVars, fVars, mVars>>
    \/ BeginBook /\ UNCHANGED <<hVars, sVars, fVars, mVars>>
    \/ CreateDraft /\ UNCHANGED <<hVars, sVars, fVars, mVars>>
    \/ InitiateFile /\ UNCHANGED <<hVars, sVars, fVars, mVars>>
    \/ UploadContent /\ UNCHANGED <<hVars, sVars, fVars, mVars>>
    \/ CommitFile /\ UNCHANGED <<hVars, sVars, fVars, mVars>>
    \/ PublishBook /\ UNCHANGED <<hVars, sVars, fVars, mVars>>
    \/ UploadSummary /\ UNCHANGED <<hVars, sVars, fVars, mVars>>
    \/ RequestHangs /\ UNCHANGED <<hVars, sVars, fVars, mVars>>

SpecUpload == InitUpload /\ [][NextUpload]_vars

(***************************************************************************)
(* Publisher: get_existing_records, extract_gutenberg_id, update_record,   *)
(* update_all.                                                             *)
(* A record is its publisher field and the text of its additional          *)
(* description, a sequence of tokens: "PGE " stands for the words          *)
(* 'Project Gutenberg eBook ', "#" and "." for themselves, a digit for a   *)
(* number written out, "text" for any other words.                         *)
(***************************************************************************)
Digits == [d \in {"0", "1", "2", "3", "4", "5", "6", "7", "8", "9"} |->
             CASE d = "0" -> 0 [] d = "1" -> 1 [] d = "2" -> 2 [] d = "3" -> 3
               [] d = "4" -> 4 [] d = "5" -> 5 [] d = "6" -> 6 [] d = "7" -> 7
               [] d = "8" -> 8 [] d = "9" -> 9]

\* str(n), for the one-digit numbers of the model.
Str(n) == CHOOSE d \in DOMAIN Digits : Digits[d] = n

\* The additional description create_metadata writes for a book id
\* (lines 289-294).
SystemDesc(n) ==
    <<"PGE ", "#", Str(n), ".", " Downloaded from https://www", ".",
      "gutenberg", ".", "org/ebooks/", Str(n)>>

\* The index of the first occurrence of tok in d, 0 when there is none.
IndexOf(d, tok) ==
    IF \E k \in 1..Len(d) : d[k] = tok
    THEN SetMin({ k \in 1..Len(d) : d[k] = tok })
    ELSE 0

\* d.split(tok)[1]: what lies between the first and the second tok.  The
\* caller has checked that tok occurs.
SplitSecond(d, tok) ==
    LET rest == SubSeq(d, IndexOf(d, tok) + 1, Len(d))
        k == IndexOf(rest, tok)
    IN IF k = 0 THEN rest ELSE SubSeq(rest, 1, k - 1)

\* d.split(tok)[0]
SplitFirst(d, tok) ==
    LET k == IndexOf(d, tok) IN IF k = 0 THEN d ELSE SubSeq(d, 1, k - 1)

\* 'Project Gutenberg eBook #' in desc_text
HasMarker(d) == \E k \in 1..(Len(d) - 1) : d[k] = "PGE " /\ d[k + 1] = "#"

\* extract_gutenberg_id returns None.
NoGutenbergId == -1

\* extract_gutenberg_id, for a record with at most one additional
\* description: the number between the first '#' and the next '.', None
\* when the marker is missing or int() raises ValueError.
extract_gutenberg_id(record) ==
    IF ~HasMarker(record.desc) THEN NoGutenbergId
    ELSE LET id_str == SplitFirst(SplitSecond(record.desc, "#"), ".") IN
         IF Len(id_str) = 1 /\ id_str[1] \in DOMAIN Digits
         THEN Digits[id_str[1]]
         ELSE NoGutenbergId

\* if not gutenberg_id: true of None, and of the number 0.
NotGutenbergId(gid) == gid = NoGutenbergId \/ gid = 0

\* The records a listing can hold.
Records ==
    { [pub |-> "Project Gutenberg", desc |-> SystemDesc(n)] : n \in 0..MaxId }
    \cup
    { [pub |-> "Project Gutenberg", desc |-> <<"text">>],
      [pub |-> "Project Gutenberg", desc |-> <<"PGE ", "#", "text", ".">>],
      [pub |-> "Another Press", desc |-> SystemDesc(1)] }

\* One listing request: "error", or a page of some number of hits; what a
\* hit is, is chosen when the loop over the page reaches it.  The server
\* holds at most MaxRecords records: once n of them were listed, a page has
\* at most MaxRecords - n hits.
ListResponses(n) ==
    { [kind |-> "error", hits |-> 0] }
    \cup
    { [kind |-> "ok", hits |-> k] : k \in 0..(MaxRecords - n) }

\* Variant: every record is yielded, whoever published it.
IsGutenberg_Any(record) == TRUE

\* if publisher == 'Project Gutenberg': yield record
IsGutenberg(record) == record.pub = "Project Gutenberg"

\* Lines 784-795, reached when the generator ends or the limit is passed.
UpdateSummary ==
    /\ upSummary' = TRUE
    /\ upPc' = "done"

\* get_existing_records has no hits in hand: request the next page.  An
\* exception or an empty page ends the generator, and with it the loop.
ListPage ==
    /\ upPc = "gen"
    /\ hits = 0
    /\ \E resp \in ListResponses(listed) :
         IF resp.kind = "error" \/ resp.hits = 0
         THEN UpdateSummary /\ UNCHANGED <<hits, page, listed>>
         ELSE /\ hits' = resp.hits
              /\ page' = page + 1
              /\ listed' = listed + resp.hits
              /\ UNCHANGED <<upSummary, upPc>>
    /\ UNCHANGED <<dirExists, metaDir, bookDir, limit, metadata_files, upIdx,
                   upSuccessful, upFailed, reqs, outs, ret, count, cur>>

\* The next hit is of another publisher: it is not yielded.
SkipRecord ==
    /\ upPc = "gen"
    /\ hits > 0
    /\ \E record \in Records : ~IsGutenberg(record)
    /\ hits' = hits - 1
    /\ UNCHANGED <<upPc, dirExists, metaDir, bookDir, limit, metadata_files,
                   upIdx, upSuccessful, upFailed, upSummary, reqs, outs, ret,
                   page, listed, count, cur>>

\* update_record returned r for the record in hand: update_all counts it and
\* asks the generator for the next one.
RecordReturns(record, r) ==
    LET c == Counted(upSuccessful, upFailed, record, r) IN
    /\ ret' = (IF r THEN "True" ELSE "False")
    /\ upSuccessful' = c.successful
    /\ upFailed' = c.failed
    /\ upPc' = "gen"

RecordRaises ==
    /\ ret' = "raise"
    /\ upPc' = "aborted"
    /\ UNCHANGED <<upSuccessful, upFailed>>

RecordGoesOn(pc) ==
    /\ upPc' = pc
    /\ UNCHANGED <<ret, upSuccessful, upFailed>>

\* glob(f"{gutenberg_id}_*.json")
HasMetadataFile(gid) == gid \in DOMAIN metaDir

\* update_all's loop body for a yielded record: stop when the limit is
\* passed, else call update_record, which runs up to its first request
\* (lines 688-715).
Yielded(record) ==
    IF limit # 0 /\ count + 1 > limit
    THEN /\ UpdateSummary
         /\ UNCHANGED <<reqs, outs, ret, upSuccessful, upFailed>>
    ELSE LET gid == extract_gutenberg_id(record) IN
         /\ reqs' = <<>>
         /\ outs' = <<>>
         /\ upSummary' = upSummary
         /\ IF NotGutenbergId(gid) THEN RecordReturns(record, FALSE)
            ELSE IF ~HasMetadataFile(gid) THEN RecordReturns(record, FALSE)
            ELSE IF metaDir[gid] = "malformed" THEN RecordRaises
            ELSE /\ upPc' = "newversion"
                 /\ ret' = "none"
                 /\ UNCHANGED <<upSuccessful, upFailed>>

\* The next hit is a Project Gutenberg record: the generator yields it.
TakeRecord ==
    /\ upPc = "gen"
    /\ hits > 0
    /\ \E record \in Records :
       /\ IsGutenberg(record)
       /\ hits' = hits - 1
       /\ count' = count + 1
       /\ cur' = record
       /\ Yielded(record)
    /\ UNCHANGED <<dirExists, metaDir, bookDir, limit, metadata_files, upIdx,
                   page, listed>>

\* Lines 717-725.  draft_id = new_draft.get('id') is None without the field,
\* and the next requests are made all the same.
CreateNewVersion ==
    /\ upPc = "newversion"
    /\ \E o \in JsonOutcomes :
         /\ Sent("create-new-version", o)
         /\ IF Truthy(o) THEN RecordGoesOn("import") ELSE RecordReturns(cur, FALSE)
    /\ UNCHANGED <<dirExists, metaDir, bookDir, limit, metadata_files, upIdx,
                   upSummary, page, listed, hits, count, cur>>

\* Lines 727-733.
ImportFiles ==
    /\ upPc = "import"
    /\ \E o \in PlainOutcomes :
         /\ Sent("import-files", o)
         /\ IF StepOk(o) THEN RecordGoesOn("metadata") ELSE RecordReturns(cur, FALSE)
    /\ UNCHANGED <<dirExists, metaDir, bookDir, limit, metadata_files, upIdx,
                   upSummary, page, listed, hits, count, cur>>

\* Lines 735-741.
UpdateDraftMetadata ==
    /\ upPc = "metadata"
    /\ \E o \in PlainOutcomes :
         /\ Sent("update-metadata", o)
         /\ IF StepOk(o) THEN RecordGoesOn("republish") ELSE RecordReturns(cur, FALSE)
    /\ UNCHANGED <<dirExists, metaDir, bookDir, limit, metadata_files, upIdx,
                   upSummary, page, listed, hits, count, cur>>

\* Lines 743-751.
PublishUpdate ==
    /\ upPc = "republish"
    /\ \E o \in JsonOutcomes :
         /\ Sent("publish", o)
         /\ RecordReturns(cur, Truthy(o))
    /\ UNCHANGED <<dirExists, metaDir, bookDir, limit, metadata_files, upIdx,
                   upSummary, page, listed, hits, count, cur>>

InitUpdate ==
    /\ HarvestOff
    /\ StripOff
    /\ SanitizeOff
    /\ MetadataOff
    /\ upPc = "gen"
    /\ dirExists = TRUE
    /\ metaDir \in UNION { [S -> {"malformed", "ok"}] : S \in SUBSET Stems }
    /\ bookDir = {}
    /\ limit \in 0..MaxLimit
    /\ metadata_files = <<>>
    /\ upIdx = 0
    /\ upSuccessful = 0
    /\ upFailed = <<>>
    /\ upSummary = FALSE
    /\ reqs = <<>>
    /\ outs = <<>>
    /\ ret = "none"
    /\ page = 1
    /\ hits = 0
    /\ listed = 0
    /\ count = 0
    /\ cur = NoRecord

NextUpdate ==
    \/ ListPage /\ UNCHANGED <<hVars, sVars, fVars, mVars>>
    \/ SkipRecord /\ UNCHANGED <<hVars, sVars, fVars, mVars>>
    \/ TakeRecord /\ UNCHANGED <<hVars, sVars, fVars, mVars>>
    \/ CreateNewVersion /\ UNCHANGED <<hVars, sVars, fVars, mVars>>
    \/ ImportFiles /\ UNCHANGED <<hVars, sVars, fVars, mVars>>
    \/ UpdateDraftMetadata /\ UNCHANGED <<hVars, sVars, fVars, mVars>>
    \/ PublishUpdate /\ UNCHANGED <<hVars, sVars, fVars, mVars>>
    \/ RequestHangs /\ UNCHANGED <<hVars, sVars, fVars, mVars>>

SpecUpdate == InitUpdate /\ [][NextUpdate]_vars

(***************************************************************************)
(* Publisher: create_metadata, and extract_gutenberg_id on a record that   *)
(* carries its result.  A name is a sequence of tokens: "," and " " stand  *)
(* for themselves, every other token for a word.                           *)
(***************************************************************************)
\* author.get('name', 'Unknown Author'): the entry's name, or the default.
NameOf(person, default) == IF person.has_name THEN person.name ELSE default

\* Variant: the name is split on its last comma.
ParseName_LastComma(name) ==
    LET ks == { j \in 1..Len(name) : name[j] = "," } IN
    IF ks # {}
    THEN [family_name |-> PyStrip(SubSeq(name, 1, SetMax(ks) - 1)),
          given_name |-> PyStrip(SubSeq(name, SetMax(ks) + 1, Len(name)))]
    ELSE [family_name |-> name, given_name |-> <<>>]

\* if ',' in name: parts = name.split(',', 1); family_name = parts[0].strip();
\* given_name = parts[1].strip()  else: family_name = name; given_name = "".
ParseName(name) ==
    LET k == IndexOf(name, ",") IN
    IF k # 0
    THEN [family_name |-> PyStrip(SubSeq(name, 1, k - 1)),
          given_name |-> PyStrip(SubSeq(name, k + 1, Len(name)))]
    ELSE [family_name |-> name, given_name |-> <<>>]

\* One entry of creators or contributors.  An empty given_name or
\* family_name is a key the entry does not get (if given_name: ...).
PersonOrOrg(person, default, role) ==
    LET name == NameOf(person, default)
        parts == ParseName(name)
    IN [name |-> name, given_name |-> parts.given_name,
        family_name |-> parts.family_name, role |-> role]

PersonsOrOrgs(field, default, role) ==
    [k \in 1..Len(field.list) |-> PersonOrOrg(field.list[k], default, role)]

\* Lines 135-142.
UnknownAuthor ==
    [name |-> <<"Unknown", " ", "Author">>, given_name |-> <<>>,
     family_name |-> <<"Unknown">>, role |-> "creator"]

\* Lines 107-142.
Creators(meta) ==
    LET creators == PersonsOrOrgs(meta.authors, <<"Unknown", " ", "Author">>, "creator")
    IN IF creators = <<>> THEN <<UnknownAuthor>> ELSE creators

\* Variant: the translators are put before the editors.
Contributors_TranslatorsFirst(meta) ==
    PersonsOrOrgs(meta.translators, <<"Unknown", " ", "Translator">>, "other")
    \o PersonsOrOrgs(meta.editors, <<"Unknown", " ", "Editor">>, "editor")

\* Lines 217-270.
Contributors(meta) ==
    PersonsOrOrgs(meta.editors, <<"Unknown", " ", "Editor">>, "editor")
    \o PersonsOrOrgs(meta.translators, <<"Unknown", " ", "Translator">>, "other")

\* Lines 290-294: f"Project Gutenberg eBook #{book_meta.get('id')}. ..."
AdditionalDescription(id) ==
    IF id = None
    THEN <<"PGE ", "#", "None", ".", " Downloaded from https://www", ".",
           "gutenberg", ".", "org/ebooks/", "None">>
    ELSE SystemDesc(id)

create_metadata ==
    /\ mPc = "ready"
    /\ metadata' =
          LET contributors == Contributors(gutenberg_meta) IN
          [creators |-> Creators(gutenberg_meta),
           has_contributors |-> contributors # <<>>,
           contributors |-> contributors,
           publisher |-> "Project Gutenberg",
           additional_descriptions |-> <<AdditionalDescription(gutenberg_meta.id)>>]
    /\ mPc' = "built"
    /\ UNCHANGED <<gutenberg_meta, gutenberg_id>>

\* The record the repository returns for the published metadata, as far as
\* get_existing_records and extract_gutenberg_id read it.
PublishedRecord(m) ==
    [pub |-> m.publisher, desc |-> m.additional_descriptions[1]]

\* update_record, line 696, on that record.
ExtractFromPublished ==
    /\ mPc = "built"
    /\ gutenberg_id' = extract_gutenberg_id(PublishedRecord(metadata))
    /\ mPc' = "done"
    /\ UNCHANGED <<gutenberg_meta, metadata>>

\* The entries of an authors, editors or translators list: a name with
\* commas and blanks around its parts, a name without a comma, and an entry
\* without a 'name'.
PersonEntries ==
    { [has_name |-> TRUE, name |-> <<" ", "Doe", " ", ",", " ", "Jane", ",", "Jr", " ">>],
      [has_name |-> TRUE, name |-> <<"Mark", " ", "Twain">>],
      [has_name |-> FALSE, name |-> <<>>] }

PersonFields ==
    {Missing} \cup
    { [has |-> TRUE, list |-> l] : l \in SeqsUpTo(PersonEntries, MaxPeople) }

InitMetadata ==
    /\ HarvestOff
    /\ StripOff
    /\ PublisherOff
    /\ SanitizeOff
    /\ mPc = "ready"
    /\ gutenberg_meta \in [id : {None} \cup (0..MaxId), authors : PersonFields,
                            editors : PersonFields, translators : PersonFields]
    /\ metadata = NoMetadata
    /\ gutenberg_id = None

NextMetadata ==
    \/ create_metadata /\ UNCHANGED <<hVars, sVars, pVars, fVars>>
    \/ ExtractFromPublished /\ UNCHANGED <<hVars, sVars, pVars, fVars>>

SpecMetadata == InitMetadata /\ [][NextMetadata]_vars

(***************************************************************************)
(* Either program, run once.                                               *)
(***************************************************************************)
Init == InitHarvest \/ InitUpload \/ InitUpdate

Next == NextHarvest \/ NextUpload \/ NextUpdate

Spec == Init /\ [][Next]_vars

SpecHarvestFair == InitHarvest /\ [][NextHarvest]_vars /\ WF_vars(NextHarvest)

(***************************************************************************)
(* Properties of the harvester.                                            *)
(***************************************************************************)
\* The entries of the first k page responses, in the order received.
ReceivedUpTo(k) == Flatten([j \in 1..k |-> pageLog[j].results])
Received == ReceivedUpTo(Len(pageLog))
FetchReturned == hPc # "off" /\ hPc # "fetch"

\* C5: when the pages fetched yield at least num_books entries in total,
\* fetch_metadata returns exactly num_books entries, and they are the first
\* num_books entries of the concatenation of the pages in the order received.
C5_TrimToRequestedCount ==
    (FetchReturned /\ Len(Received) >= num_books) =>
        /\ Len(books) = num_books
        /\ \A k \in 1..num_books : books[k] = Received[k]

\* fetch_metadata returned after a last page that overshot the count.
C5_Witness ==
    /\ hPc = "fetched"
    /\ num_books >= 2
    /\ Len(pageLog) >= 2
    /\ Len(Received) > num_books
    /\ Len(books) = num_books

\* C6: when the Nth page request fails, fetch_metadata does not raise, makes
\* no further page request, and returns the entries of pages 1..N-1 (trimmed
\* to num_books) with nothing of the failed page.
C6_PartialResultOnFailure ==
    \A n \in 1..Len(pageLog) :
        pageLog[n].kind # "ok" =>
            /\ n = Len(pageLog)
            /\ FetchReturned
            /\ (hPc = "aborted" => idx >= 1)
            /\ books = SubSeq(ReceivedUpTo(n - 1), 1,
                              Min2(num_books, Len(ReceivedUpTo(n - 1))))

\* The second page request failed after a first page that had entries.
C6_Witness ==
    /\ hPc = "fetched"
    /\ Len(pageLog) >= 2
    /\ pageLog[Len(pageLog)].kind = "noresults"
    /\ books # <<>>

\* The safety half of C7, on the history of page requests.
PagingDiscipline ==
    \A k \in 1..Len(pageLog) :
        /\ pageLog[k].before = Len(ReceivedUpTo(k - 1))
        /\ pageLog[k].before < num_books
        /\ k = 1 => pageLog[k].url = FirstUrl
        /\ k > 1 => /\ pageLog[k - 1].kind = "ok"
                    /\ pageLog[k - 1].next # NoUrl
                    /\ pageLog[k].url = pageLog[k - 1].next

\* C7: a page request is made only while fewer than num_books entries are
\* accumulated and the previous response supplied a next link, each request
\* after the first targets that link, and with finitely many pages the loop
\* ends.
C7_PagingStopsAndFollowsNext == []PagingDiscipline /\ <>FetchReturned

\* A third request followed a link that skipped a page.
C7_Witness ==
    /\ Len(pageLog) >= 2
    /\ pageLog[1].next = FirstUrl + 2
    /\ pageLog[2].url = FirstUrl + 2
    /\ hPc = "fetched"

InDownloadLoop == hPc = "loop" \/ (hPc = "aborted" /\ ~summary /\ idx >= 1)

DownloadAccounting ==
    /\ attempts = SubSeq(books_metadata, 1, Len(attempts))
    /\ InDownloadLoop => /\ Len(attempts) = idx - 1
                         /\ successful + Len(failed) = idx - 1
    /\ summary => /\ attempts = books_metadata
                  /\ successful + Len(failed) = Len(books_metadata)
    /\ \A k \in 1..Len(failed) :
          /\ failed[k][2] \in {"Download failed", "Save failed"}
          /\ \E j \in 1..Len(attempts) : attempts[j] = failed[k][1]
    \* The loop is left early only at an entry without 'id'.
    /\ (hPc = "aborted" /\ ~summary) => books_metadata[idx] = NoId

\* One pass of the loop counts its book once: as a success, or as a failure
\* appended with the book's id and the reason.
DownloadStep ==
    (attempts' # attempts) =>
        LET b == books_metadata[idx] IN
        /\ attempts' = Append(attempts, b)
        /\ idx' = idx + 1
        /\ hPc' = "loop"
        /\ \/ successful' = successful + 1 /\ failed' = failed
           \/ /\ successful' = successful
              /\ failed' = Append(failed, <<b, "Save failed">>)
           \/ /\ successful' = successful
              /\ failed' = Append(failed, <<b, "Download failed">>)
              /\ textFiles' = textFiles
              /\ metaFiles' = metaFiles

\* C8: a failed text fetch or a failed save never stops download_all: every
\* fetched entry is attempted exactly once in list order, each failure is
\* appended to the failed list with its reason, and at the end
\* successful + len(failed) is the number of fetched entries.
C8_PerBookFailuresDoNotStopRun == []DownloadAccounting /\ [][DownloadStep]_vars

\* The summary was reached after a download failure, a save failure and a
\* success.
C8_Witness ==
    /\ summary
    /\ successful >= 1
    /\ \E k \in 1..Len(failed) : failed[k][2] = "Download failed"
    /\ \E k \in 1..Len(failed) : failed[k][2] = "Save failed"

\* C9: the aggregate file is written only after every book was processed,
\* and holds the full fetched list in fetched order, failed entries
\* included; an empty fetch fetches no text and writes no file at all.
C9_AggregateAfterAllBooks ==
    /\ master.st # "absent" =>
          /\ books_metadata # <<>>
          /\ idx = Len(books_metadata) + 1
          /\ attempts = books_metadata
    /\ master.st = "full" =>
          /\ master.content = books
          /\ Len(master.content) = successful + Len(failed)
    /\ (FetchReturned /\ books = <<>>) =>
          /\ attempts = <<>>
          /\ textFiles = {} /\ metaFiles = {}
          /\ master = NoMaster

\* The aggregate file was written in a run where a book had failed.
C9_Witness ==
    /\ master.st = "full"
    /\ failed # <<>>
    /\ successful >= 1

\* C18: save_book writes the text file first and the metadata file only if
\* that write succeeded: every metadata file has a text file of the same
\* stem; a text file can be there without its metadata file, and that book
\* is on the failed list as 'Save failed'.
C18_MetadataFileHasTextFile ==
    /\ metaFiles \subseteq textFiles
    /\ \A stem \in textFiles \ metaFiles :
          \E k \in 1..Len(failed) : failed[k] = <<stem, "Save failed">>

\* One book has both files, another only its text file.
C18_Witness ==
    /\ metaFiles # {}
    /\ textFiles \ metaFiles # {}
    /\ successful >= 1

\* The step of download_all that gets an empty text from download_book_text.
EmptyTextStep ==
    (idx' = idx + 1 /\ book_text' = "empty") =>
        /\ textFiles' = textFiles
        /\ metaFiles' = metaFiles
        /\ successful' = successful
        /\ failed' = Append(failed, <<books_metadata[idx], "Download failed">>)
        /\ hPc' = "loop"

\* C19: a book whose cleaned text is empty is treated like a failed fetch:
\* no text file and no metadata file is written for it and it is reported
\* as 'Download failed'.
C19_EmptyTextIsDownloadFailure == [][EmptyTextStep]_vars

\* The second book came back with an empty text after the first was saved.
C19_Witness ==
    /\ book_text = "empty"
    /\ idx = 3
    /\ successful = 1
    /\ Len(failed) = 1
    /\ failed[1] = <<books_metadata[2], "Download failed">>
    /\ books_metadata[2] \notin textFiles

(***************************************************************************)
(* Properties of the publisher.                                            *)
(***************************************************************************)
UploadSeq ==
    <<"create-draft", "initiate-file", "upload-content", "commit-file", "publish">>
UpdateSeq ==
    <<"create-new-version", "import-files", "update-metadata", "publish">>

\* The request was answered with a 2xx status and a usable body.
Succeeded(o) == o \in {"ok", "noid"}
AllSucceeded == \A k \in 1..Len(outs) : Succeeded(outs[k])
Returned == ret # "none"
\* The request was answered, and not with success.
Failed(o) == ~Succeeded(o) /\ o # "silent"

\* The part of C1 about the order of the requests: they are a prefix of the
\* fixed sequence, and only the last one can have failed.
UploadRequestsArePrefix ==
    /\ reqs = SubSeq(UploadSeq, 1, Len(reqs))
    /\ \A k \in 1..Len(reqs) : ~Succeeded(outs[k]) => k = Len(reqs)

\* C1: the requests made for a book are a prefix of create-draft,
\* initiate-file, upload-content, commit-file, publish, each made only if
\* every earlier one succeeded and none after the first failure, and
\* upload_book returns True if and only if all five succeeded.
C1_UploadBookSequence ==
    /\ UploadRequestsArePrefix
    /\ Returned => (ret = "True" <=> (Len(reqs) = Len(UploadSeq) /\ AllSucceeded))

\* C2: the requests made for a record are a prefix of create-new-version,
\* import-files, update-metadata, publish; once a step has failed no later
\* step is made and update_record has returned False.
UpdateRequestsArePrefix ==
    /\ reqs = SubSeq(UpdateSeq, 1, Len(reqs))
    /\ \A k \in 1..Len(reqs) :
          /\ ~Succeeded(outs[k]) => k = Len(reqs)
          /\ Failed(outs[k]) => ret = "False"

\* The step at which a request of update_record fails: the record is put on
\* the failed list and update_all is back at its loop, asking for the next
\* record.
UpdateFailureStep ==
    (reqs' # reqs /\ reqs' # <<>> /\ Failed(outs'[Len(outs')])) =>
        /\ ret' = "False"
        /\ upPc' = "gen"
        /\ upFailed' = Append(upFailed, cur)
        /\ upSuccessful' = upSuccessful
        /\ hits' = hits

C2_UpdateRecordSequence == []UpdateRequestsArePrefix /\ [][UpdateFailureStep]_vars

\* The metadata overwrite of a second record failed, and the page in hand
\* has a further record.
C2_Witness ==
    /\ ret = "False"
    /\ Len(reqs) = 3
    /\ outs[3] = "error"
    /\ upPc = "gen"
    /\ count = 2
    /\ hits > 0

\* C3: no error on one book or record aborts the batch: the harvester and
\* the publisher always get to their end-of-run summary.
C3_NoErrorAbortsTheBatch ==
    /\ hPc = "aborted" => summary
    /\ upPc # "aborted"

\* The number of metadata files upload_all is to process.
SelectedCount ==
    IF limit = 0 THEN Cardinality(DOMAIN metaDir)
    ELSE Min2(limit, Cardinality(DOMAIN metaDir))

InUploadLoop == upPc \in {"loop", "create", "init", "content", "commit", "publish"}

UploadAccounting ==
    /\ InUploadLoop \/ upSummary =>
          \* the selection: the first SelectedCount stems in sorted order
          /\ Len(metadata_files) = SelectedCount
          /\ \A k \in 1..Len(metadata_files) :
                /\ metadata_files[k] \in DOMAIN metaDir
                /\ k > 1 => metadata_files[k - 1] < metadata_files[k]
                /\ \A f \in DOMAIN metaDir :
                      f < metadata_files[k] => \E j \in 1..(k - 1) : metadata_files[j] = f
    /\ InUploadLoop => upSuccessful + Len(upFailed) = upIdx - 1
    /\ upSummary => upSuccessful + Len(upFailed) = Len(metadata_files)

\* A book that upload_book returns False for is counted as one failure, and
\* upload_all is back at its loop.
UploadFailureStep ==
    (upPc # "off" /\ upPc # "gen" /\ ret' = "False" /\ upIdx' # upIdx) =>
        /\ upFailed' = Append(upFailed, metadata_files[upIdx])
        /\ upSuccessful' = upSuccessful
        /\ upIdx' = upIdx + 1
        /\ upPc' = "loop"

\* C4: at the end of upload_all, successes plus failures is the number of
\* metadata files selected (all, or the first limit in sorted order); a book
\* whose upload fails is one failure, and the next books are still attempted.
C4_UploadCountsAddUp == []UploadAccounting /\ [][UploadFailureStep]_vars

\* The summary of a run in which the first book failed and a later one was
\* published.
C4_Witness ==
    /\ upSummary
    /\ upPc = "done"
    /\ upIdx > 1
    /\ upFailed = <<metadata_files[1]>>
    /\ upSuccessful >= 1
    /\ ret = "True"

\* upload_book is at one of its remote requests.
AtUploadRequest == upPc \in {"create", "init", "content", "commit", "publish"}

\* The parts of C12 that hold: no request is made for a book without its
\* text file or without its metadata file, and a book without its text file
\* that upload_all has passed is on the failed list.
TextlessBooksGetNoRequest ==
    /\ AtUploadRequest =>
          /\ metadata_files[upIdx] \in bookDir
          /\ metadata_files[upIdx] \in DOMAIN metaDir
    /\ InUploadLoop \/ upSummary =>
          \A k \in 1..(upIdx - 1) :
             metadata_files[k] \notin bookDir =>
                \E j \in 1..Len(upFailed) : upFailed[j] = metadata_files[k]

\* C12: a metadata file whose text file is absent is a per-book failure:
\* upload_book returns False without any request, the book is listed as
\* failed and the batch continues; a text file without a metadata file is
\* never uploaded.
C12_MissingTextIsSkipped ==
    /\ TextlessBooksGetNoRequest
    /\ (upPc = "aborted" /\ upIdx >= 1) => metadata_files[upIdx] \in bookDir

\* update_record is at one of its mutating requests, or has made one for
\* the record in hand.
AtUpdateRequest ==
    \/ upPc \in {"newversion", "import", "metadata", "republish"}
    \/ upPc = "gen" /\ reqs # <<>>

\* The record's description starts with 'Project Gutenberg eBook #n.' for
\* the number n of a local metadata file n_*.json.
Matchable(record) ==
    \E n \in DOMAIN metaDir :
       /\ Len(record.desc) >= 4
       /\ SubSeq(record.desc, 1, 4) = <<"PGE ", "#", Str(n), ".">>

OnlyMatchedGutenbergRecords ==
    /\ count > 0 => cur.pub = "Project Gutenberg"
    /\ AtUpdateRequest => cur.pub = "Project Gutenberg" /\ Matchable(cur)

\* The step that hands update_record a record failing one of the two checks:
\* nothing is requested, the record is a failure and update_all is back at
\* its loop.
UnmatchedRecordStep ==
    (count' = count + 1 /\ upPc' # "done" /\ ~Matchable(cur')) =>
        /\ reqs' = <<>>
        /\ ret' = "False"
        /\ upFailed' = Append(upFailed, cur')
        /\ upSuccessful' = upSuccessful
        /\ upPc' = "gen"

\* C13: only records of publisher 'Project Gutenberg' reach update_record,
\* and no mutating request is made unless the identifier was recovered from
\* the description and a local metadata file <id>_*.json exists; a record
\* failing either check is skipped and the batch continues.
C13_OnlyMatchedRecordsAreUpdated ==
    []OnlyMatchedGutenbergRecords /\ [][UnmatchedRecordStep]_vars

\* A Gutenberg record whose description carries no identifier was skipped,
\* after an earlier record went through its requests, and the page in hand
\* has a further record.
C13_Witness ==
    /\ upPc = "gen"
    /\ cur = [pub |-> "Project Gutenberg", desc |-> <<"text">>]
    /\ ret = "False"
    /\ reqs = <<>>
    /\ upSuccessful = 1
    /\ count = 2
    /\ hits > 0

\* C15: every remote call is bounded by a timeout: a server that never
\* answers makes the call fail, and no program waits for it forever.
C15_EveryCallIsBounded ==
    /\ hPc # "blocked"
    /\ upPc # "blocked"

(***************************************************************************)
(* Properties of create_metadata.                                          *)
(***************************************************************************)
\* The text d contains '#n.'.
ContainsIdMark(d, n) ==
    \E k \in 1..(Len(d) - 2) : d[k] = "#" /\ d[k + 1] = Str(n) /\ d[k + 2] = "."

HasIntegerId == gutenberg_meta.id # None

\* The part of C14 that holds for every integer id: the description carries
\* '#n.' and extract_gutenberg_id returns n.
IdRoundTrip ==
    (mPc = "done" /\ HasIntegerId) =>
        /\ ContainsIdMark(metadata.additional_descriptions[1], gutenberg_meta.id)
        /\ gutenberg_id = gutenberg_meta.id

\* C14: for a book of integer id n the metadata carries a description with
\* '#n.', extract_gutenberg_id returns n from a record with that metadata,
\* and update_record so takes the record as one it can match.
C14_IdentifierRoundTrip ==
    (mPc = "done" /\ HasIntegerId) =>
        /\ ContainsIdMark(metadata.additional_descriptions[1], gutenberg_meta.id)
        /\ gutenberg_id = gutenberg_meta.id
        /\ ~NotGutenbergId(gutenberg_id)

(***************************************************************************)
(* Properties of sanitize_filename.                                        *)
(***************************************************************************)
NoIllegalChar == \A k \in 1..Len(safe_title) : safe_title[k] \notin IllegalChars

NoLeadingSeparator == safe_title # <<>> => safe_title[1] \notin Separators

NoTrailingSeparator ==
    safe_title # <<>> => safe_title[Len(safe_title)] \notin Separators

WithinMaxLength == Len(safe_title) <= max_length

\* The result stops where a word of the input stops: at the end of the
\* cleaned text, before its first word, or right before a separator '_'.
EndsAtWordBoundary ==
    LET full == Cleaned(title)
        n == Len(safe_title)
    IN n = 0 \/ n = Len(full) \/ full[n + 1] = "_"

\* The parts of C11 that hold for every input and every max_length >= 0.
SanitizeSafeParts ==
    fPc = "done" => NoIllegalChar /\ NoLeadingSeparator /\ WithinMaxLength

\* C11: the output of sanitize_filename has none of the illegal characters,
\* no leading or trailing separator, at most max_length characters, and a
\* truncation never cuts inside a word.
C11_SanitizedFilenameIsSafe ==
    fPc = "done" =>
        /\ NoIllegalChar
        /\ NoLeadingSeparator
        /\ NoTrailingSeparator
        /\ WithinMaxLength
        /\ EndsAtWordBoundary

(***************************************************************************)
(* Properties of strip_gutenberg_headers.                                  *)
(***************************************************************************)
\* The patterns once more, as the literal before and the literal after the
\* .+ (no .+ when the second is empty), for the start list and the end list.
MarkerHead(kind) ==
    << <<"***", " ", kind \o "_THIS", " ">>,
       <<"***", kind \o "_THE", " ">>,
       <<kind \o "_THIS">> >>
MarkerTail == << <<" ", "***">>, <<" ", "***">>, <<>> >>

Upper(tok) ==
    IF tok = "start_this" THEN "START_THIS"
    ELSE IF tok = "end_this" THEN "END_THIS" ELSE tok

\* Pattern k of the list of kind matches the text from offset a to offset b.
Matches(kind, k, a, b) ==
    LET hd == MarkerHead(kind)[k]
        tl == MarkerTail[k]
    IN /\ 0 <= a /\ b <= Len(text)
       /\ a + Len(hd) <= b
       /\ \A j \in 1..Len(hd) : Upper(text[a + j]) = hd[j]
       /\ IF tl = <<>> THEN b = a + Len(hd)
          ELSE /\ b - Len(tl) > a + Len(hd)
               /\ \A j \in 1..Len(tl) : text[b - Len(tl) + j] = tl[j]
               /\ \A j \in (a + Len(hd) + 1)..(b - Len(tl)) : text[j] # "NL"

MatchesSomewhere(kind, k) ==
    \E a \in 0..Len(text) : \E b \in a..Len(text) : Matches(kind, k, a, b)

\* The patterns of the list that match somewhere in the text.
Matching(kind) == { k \in 1..3 : MatchesSomewhere(kind, k) }

\* c is t without its leading and trailing white space.
IsTrimOf(c, t) ==
    \E i \in 1..(Len(t) + 1), j \in 0..Len(t) :
        /\ i <= j + 1
        /\ c = SubSeq(t, i, j)
        /\ \A k \in 1..(i - 1) : t[k] \in {" ", "NL"}
        /\ \A k \in (j + 1)..Len(t) : t[k] \in {" ", "NL"}
        /\ c # <<>> => c[1] \notin {" ", "NL"} /\ c[Len(c)] \notin {" ", "NL"}

\* C10: the start offset is the end of a match of the first start pattern,
\* in list order, that matches anywhere (0 when none does); the end offset
\* is the beginning of a match of the first end pattern, in list order, that
\* matches anywhere (len(text) when none does); the result is the trimmed
\* text between the two offsets, so the whole trimmed text when no marker
\* is found.
C10_StripBetweenMarkers ==
    sPc = "done" =>
        LET starts == Matching("START")
            ends == Matching("END")
        IN
        /\ IF starts = {} THEN start_pos = 0
           ELSE \E a \in 0..Len(text) : Matches("START", SetMin(starts), a, start_pos)
        /\ IF ends = {} THEN end_pos = Len(text)
           ELSE \E b \in 0..Len(text) : Matches("END", SetMin(ends), end_pos, b)
        /\ IsTrimOf(content, SubSeq(text, start_pos + 1, end_pos))
        /\ (starts = {} /\ ends = {}) => IsTrimOf(content, text)

\* A text with a start banner, a body line and an end banner was stripped to
\* the body, white space removed.
C10_Witness ==
    /\ sPc = "done"
    /\ Matching("START") # {} /\ Matching("END") # {}
    /\ 0 < start_pos /\ start_pos < end_pos /\ end_pos < Len(text)
    /\ content # <<>>
    /\ Len(content) < end_pos - start_pos

(***************************************************************************)
(* Properties of the creators and contributors create_metadata builds.     *)
(***************************************************************************)
Built == mPc \in {"built", "done"}

\* entry p carries the family and given name the name n splits into: at
\* its first comma, both sides trimmed; all of it the family name when it
\* has no comma.
SplitsAs(p, n) ==
    IF \E k \in 1..Len(n) : n[k] = ","
    THEN \E k \in 1..Len(n) :
            /\ n[k] = ","
            /\ \A j \in 1..(k - 1) : n[j] # ","
            /\ IsTrimOf(p.family_name, SubSeq(n, 1, k - 1))
            /\ IsTrimOf(p.given_name, SubSeq(n, k + 1, Len(n)))
    ELSE p.family_name = n /\ p.given_name = <<>>

\* C16: one creator per author, in input order; a name with a comma is split
\* on its first comma into family name and given name, both trimmed; a name
\* without a comma is the family name, with no given name; an empty or
\* missing author list gives the one creator 'Unknown Author' with no given
\* name.
C16_CreatorsFromAuthors ==
    Built =>
        LET authors == gutenberg_meta.authors.list
            creators == metadata.creators
        IN IF authors = <<>>
           THEN /\ Len(creators) = 1
                /\ creators[1].name = <<"Unknown", " ", "Author">>
                /\ creators[1].given_name = <<>>
           ELSE /\ Len(creators) = Len(authors)
                /\ \A k \in 1..Len(authors) :
                      authors[k].has_name =>
                         /\ creators[k].name = authors[k].name
                         /\ SplitsAs(creators[k], authors[k].name)

\* Two authors, the first with two commas and blanks to trim, the second
\* without a comma.
C16_Witness ==
    /\ Built
    /\ Len(gutenberg_meta.authors.list) = 2
    /\ metadata.creators[1].family_name = <<"Doe">>
    /\ metadata.creators[1].given_name = <<"Jane", ",", "Jr">>
    /\ metadata.creators[2].family_name = <<"Mark", " ", "Twain">>
    /\ metadata.creators[2].given_name = <<>>

\* C17: the contributors are the editors, with role 'editor', followed by
\* the translators, with role 'other', each group in input order; there are
\* as many as editors plus translators, and the field is left out when there
\* are none.
C17_EditorsBeforeTranslators ==
    Built =>
        LET editors == gutenberg_meta.editors.list
            translators == gutenberg_meta.translators.list
            contributors == metadata.contributors
        IN /\ Len(contributors) = Len(editors) + Len(translators)
           /\ \A k \in 1..Len(editors) :
                 /\ contributors[k].role = "editor"
                 /\ editors[k].has_name => contributors[k].name = editors[k].name
           /\ \A k \in 1..Len(translators) :
                 /\ contributors[Len(editors) + k].role = "other"
                 /\ translators[k].has_name =>
                       contributors[Len(editors) + k].name = translators[k].name
           /\ metadata.has_contributors <=> (editors # <<>> \/ translators # <<>>)

\* Two different editors and a translator.
C17_Witness ==
    /\ Built
    /\ Len(gutenberg_meta.editors.list) = 2
    /\ gutenberg_meta.editors.list[1] # gutenberg_meta.editors.list[2]
    /\ Len(gutenberg_meta.translators.list) = 1
    /\ gutenberg_meta.translators.list[1].has_name
    /\ Len(metadata.contributors) = 3
    /\ metadata.contributors[3].role = "other"

=============================================================================
